---- MODULE Spec2Model ----
(***************************************************************************)
(* Model of provisioner/commands/validator/validator.py: the path          *)
(* validators (FileValidator, DirValidator, FileSchemeValidator,           *)
(* HashSumValidator, ContentFileValidator and the presets built from       *)
(* them) and the content scheme framework (FileContentScheme.from_args,    *)
(* ReleaseInfoContentScheme).                                              *)
(*                                                                         *)
(* A validate call is a stack of frames, one per validate method that is   *)
(* running; the top frame is the method that runs next.  One action per    *)
(* validate method executes that method up to the nested validate call it  *)
(* makes, or up to its return or raise.                                    *)
(***************************************************************************)
EXTENDS Integers, Sequences, FiniteSets, TLC

VARIABLES fs, validator, root, stack, visited, hashed, from_args_ret, result,
          parked

vars ==
    <<fs, validator, root, stack, visited, hashed, from_args_ret, result,
      parked>>

(***************************************************************************)
(* Bounds of the model.                                                    *)
(***************************************************************************)
\* longest enumerated VERSION / BUILD string
MaxStrLen == 7
\* largest integer given as a VERSION / BUILD value
MaxInt == 12

(***************************************************************************)
(* Python values found in parsed file content.  t is the Python type, s    *)
(* the characters of a str, n the number of an int, the tenths of a float  *)
(* (20 is 2.0) or the length of a list.                                    *)
(***************************************************************************)
PyStr(s) == [t |-> "str", s |-> s, n |-> 0]
PyInt(n) == [t |-> "int", s |-> <<>>, n |-> n]
PyFloat(n) == [t |-> "float", s |-> <<>>, n |-> n]
PyListOf(n) == [t |-> "list", s |-> <<>>, n |-> n]
PyNone == [t |-> "none", s |-> <<>>, n |-> 0]

DigitChars == <<"0", "1", "2", "3", "4", "5", "6", "7", "8", "9">>

IsDigit(c) == \E i \in 1..Len(DigitChars) : DigitChars[i] = c

RECURSIVE IntStr(_)
IntStr(n) ==
    IF n < 10 THEN <<DigitChars[n + 1]>>
    ELSE IntStr(n \div 10) \o <<DigitChars[(n % 10) + 1]>>

RECURSIVE ListStr(_)
ListStr(n) == IF n = 0 THEN <<>> ELSE <<"'", "c", "'">> \o
                  (IF n = 1 THEN <<>> ELSE <<",", " ">> \o ListStr(n - 1))

\* the converter=str of the VERSION and BUILD attributes
str(v) ==
    CASE v.t = "str" -> v.s
      [] v.t = "int" -> IntStr(v.n)
      [] v.t = "float" -> IntStr(v.n \div 10) \o <<".">> \o IntStr(v.n % 10)
      [] v.t = "list" -> <<"[">> \o ListStr(v.n) \o <<"]">>
      [] OTHER -> <<"N", "o", "n", "e">>

(***************************************************************************)
(* attr.validators.matches_re(regex): re.fullmatch of the pattern on the   *)
(* value.  The patterns are run as the automata they denote; the state is  *)
(* the number of pattern items consumed so far, 0 when the match is dead.  *)
(***************************************************************************)
\* "^[0-9]+\.[0-9]+\.[0-9]+$": states 1 start, 2 in group 1, 3 after dot 1,
\* 4 in group 2, 5 after dot 2, 6 in group 3 (accepting)
VersionStep(q, c) ==
    CASE q \in {1, 2} /\ IsDigit(c) -> 2
      [] q = 2 /\ c = "." -> 3
      [] q \in {3, 4} /\ IsDigit(c) -> 4
      [] q = 4 /\ c = "." -> 5
      [] q \in {5, 6} /\ IsDigit(c) -> 6
      [] OTHER -> 0

RECURSIVE VersionRun(_, _)
VersionRun(q, s) ==
    IF s = <<>> THEN q ELSE VersionRun(VersionStep(q, Head(s)), Tail(s))

\* the pattern matched with re.match and no end anchor
VERSION_matches_re_prefix(s) ==
    \E n \in 0..Len(s) : VersionRun(1, SubSeq(s, 1, n)) = 6

VERSION_matches_re(s) == VersionRun(1, s) = 6

\* "^[0-9]+$": states 1 start, 2 in the digits (accepting)
BuildStep(q, c) == IF q \in {1, 2} /\ IsDigit(c) THEN 2 ELSE 0

RECURSIVE BuildRun(_, _)
BuildRun(q, s) ==
    IF s = <<>> THEN q ELSE BuildRun(BuildStep(q, Head(s)), Tail(s))

\* the pattern written with * for +
BUILD_matches_re_star(s) == BuildRun(1, s) \in {1, 2}

BUILD_matches_re(s) == BuildRun(1, s) = 2

(***************************************************************************)
(* ReleaseInfoContentScheme: the attributes in declaration order, the      *)
(* number of them without a default, and the attrs-generated __init__.     *)
(***************************************************************************)
fields == <<"NAME", "VERSION", "BUILD", "OS", "COMPONENTS", "RELEASE">>

fields_dict == {fields[i] : i \in 1..Len(fields)}

NumRequired == 5

\* RELEASE declared without its default
required_fields_all == fields_dict

required_fields == {fields[i] : i \in 1..NumRequired}

NoObj == [f \in {} |-> PyNone]

\* what a constructor or from_args hands back: the exception it raised
\* ("" when none), the instance's attributes and its unexpected attributes
Ret(exc, reason, obj, unexpected) ==
    [exc |-> exc, reason |-> reason, obj |-> obj, unexpected |-> unexpected]

\* the converters, run when the attributes are assigned
Convert(kw) ==
    [f \in fields_dict |->
        IF f \notin DOMAIN kw THEN PyNone
        ELSE IF f \in {"VERSION", "BUILD"} THEN PyStr(str(kw[f]))
        ELSE kw[f]]

\* the validators, run in declaration order after the assignments; the
\* first one that fails raises
RunValidators(obj) ==
    CASE obj["NAME"].t # "str" -> "TypeError"
      [] ~VERSION_matches_re(obj["VERSION"].s) -> "ValueError"
      [] ~BUILD_matches_re(obj["BUILD"].s) -> "ValueError"
      [] obj["OS"].t # "str" -> "TypeError"
      [] obj["COMPONENTS"].t # "list" -> "TypeError"
      [] obj["RELEASE"].t \notin {"none", "str"} -> "TypeError"
      [] OTHER -> ""

\* cls(**kw): kw holds declared names only
ReleaseInfoContentScheme(kw) ==
    IF ~(required_fields \subseteq DOMAIN kw)
    THEN Ret("TypeError", "missing argument", NoObj, NoObj)
    ELSE LET obj == Convert(kw)
             exc == RunValidators(obj)
         IN IF exc # "" THEN Ret(exc, "validator", NoObj, NoObj)
            ELSE Ret("", "", obj, NoObj)

\* cls(*data) that drops the arguments beyond the declared attributes
Positional_truncate(l) ==
    ReleaseInfoContentScheme(
        [f \in {fields[i] : i \in 1..Len(l) \cap 1..Len(fields)} |->
            l[CHOOSE i \in 1..Len(fields) : fields[i] = f]])

\* cls(*data): the positional arguments bound in declaration order
Positional(l) ==
    IF Len(l) > Len(fields) THEN Ret("TypeError", "too many arguments", NoObj, NoObj)
    ELSE ReleaseInfoContentScheme(
             [f \in {fields[i] : i \in 1..Len(l)} |->
                 l[CHOOSE i \in 1..Len(l) : fields[i] = f]])

(***************************************************************************)
(* Parsed file content: a dict (d, a function of its keys), a list (l) or  *)
(* anything else.                                                          *)
(***************************************************************************)
DictData(d) == [shape |-> "dict", d |-> d, l |-> <<>>]
ListData(l) == [shape |-> "list", d |-> NoObj, l |-> l]
OtherData == [shape |-> "other", d |-> NoObj, l |-> <<>>]

Restrict(d, S) == [k \in S |-> d[k]]

\* from_args that leaves the unexpected keys in the constructor's arguments
from_args_keep(data) ==
    IF data.shape = "dict"
    THEN LET unexpected == (DOMAIN data.d) \ fields_dict
             r == ReleaseInfoContentScheme(Restrict(data.d, (DOMAIN data.d) \ unexpected))
         IN IF unexpected # {}
            THEN Ret("TypeError", "unexpected argument", NoObj, NoObj)
            ELSE r
    ELSE IF data.shape = "list"
    THEN Positional(data.l)
    ELSE Ret("ValidationError", "UnsupportedContentShape", NoObj, NoObj)

\* FileContentScheme.from_args
from_args(data) ==
    IF data.shape = "dict"
    THEN LET unexpected == (DOMAIN data.d) \ fields_dict
             unexpected_attrs == Restrict(data.d, unexpected)
             r == ReleaseInfoContentScheme(Restrict(data.d, (DOMAIN data.d) \ unexpected))
         IN IF r.exc # "" THEN r ELSE Ret("", "", r.obj, unexpected_attrs)
    ELSE IF data.shape = "list"
    THEN Positional(data.l)
    ELSE Ret("ValidationError", "UnsupportedContentShape", NoObj, NoObj)

(***************************************************************************)
(* File content and the content loaders (utils.load_yaml, utils.load_json) *)
(* and the digest (utils.calc_hash).  A file's bytes are well-formed JSON, *)
(* well-formed YAML that is not JSON, or garbage.                          *)
(***************************************************************************)
Content(fmt, data) == [fmt |-> fmt, data |-> data]

NoContent == Content("garbage", OtherData)

\* the loader's result: the exception it raised ("" when none) and the value
load_yaml(c) ==
    IF c.fmt = "garbage" THEN [exc |-> "YAMLError", data |-> OtherData]
    ELSE [exc |-> "", data |-> c.data]

load_json(c) ==
    IF c.fmt # "json" THEN [exc |-> "JSONDecodeError", data |-> OtherData]
    ELSE [exc |-> "", data |-> c.data]

\* hash_obj.digest(): one digest per algorithm and byte content
Digest(c, hash_type) == [alg |-> hash_type, of |-> c]

NoDigest == Digest(NoContent, "")

\* hash_obj.hexdigest() and bytes.hex(): the hexadecimal text of a digest
hex(digest) == [hex |-> digest]

\* a comparison whose result is not looked at
compare_digest_ignored(a, b) == TRUE

\* hmac.compare_digest
compare_digest(a, b) == a = b

(***************************************************************************)
(* The filesystem: every path (a sequence of relative keys below the root  *)
(* the call is given) is missing, a directory or a regular file.           *)
(***************************************************************************)
Missing == [kind |-> "missing", content |-> NoContent]
Directory == [kind |-> "dir", content |-> NoContent]
RegularFile(c) == [kind |-> "file", content |-> c]

Entry(path) == IF path \in DOMAIN fs THEN fs[path] ELSE Missing

\* Path.exists, Path.is_file, Path.is_dir
\* path.exists read without being called: a bound method is true
exists_uncalled(path) == TRUE

exists(path) == Entry(path).kind # "missing"

\* is_file that only asks for existence
is_file_exists(path) == Entry(path).kind # "missing"

is_file(path) == Entry(path).kind = "file"

\* is_dir that only asks for existence
is_dir_exists(path) == Entry(path).kind # "missing"

is_dir(path) == Entry(path).kind = "dir"

(***************************************************************************)
(* The validators.  An Optional attribute is a sequence of length at most  *)
(* one, <<>> being None; a scheme dict is the sequence of its items in     *)
(* insertion order.                                                        *)
(***************************************************************************)
None == <<>>
Some(x) == <<x>>

\* a validator: its class and its attributes, in the order
\* required, content_validator, files_scheme, scheme, hash_sum, hash_type,
\* content_type
PathValidator(kind, r, cv, fsc, sc, hs, ht, ct) ==
    [kind |-> kind, required |-> r, content_validator |-> cv,
     files_scheme |-> fsc, scheme |-> sc, hash_sum |-> hs, hash_type |-> ht,
     content_type |-> ct]

FileValidator(required) ==
    PathValidator("FileValidator", required, None, None, None, NoDigest, "", "")

DirValidator(files_scheme, required) ==
    PathValidator("DirValidator", required, None, files_scheme, None,
                  NoDigest, "", "")

FileSchemeValidator(scheme) ==
    PathValidator("FileSchemeValidator", FALSE, None, None, scheme,
                  NoDigest, "", "")

\* the preset with repomd.xml left optional
YumRepoDataValidator_optional ==
    DirValidator(Some(<< <<"repomd.xml", FileValidator(FALSE)>> >>), TRUE)

YumRepoDataValidator ==
    DirValidator(Some(<< <<"repomd.xml", FileValidator(TRUE)>> >>), TRUE)

\* content_validator is declared init=False: a HashSumValidator is
\* constructed with none
HashSumValidator(required, hash_sum, hash_type) ==
    PathValidator("HashSumValidator", required, None, None, None,
                  hash_sum, hash_type, "")

ContentFileValidator(content_type) ==
    PathValidator("ContentFileValidator", FALSE, None, None, None,
                  NoDigest, "", content_type)

\* __attrs_post_init__ attaches the content validator
ReleaseInfoValidator(required, content_type) ==
    PathValidator("ReleaseInfoValidator", required,
                  Some(ContentFileValidator(content_type)), None, None,
                  NoDigest, "", content_type)

(***************************************************************************)
(* A validate call.                                                        *)
(***************************************************************************)
\* a running validate method: its validator, its path and, for a validator
\* iterating a scheme, the index of the item whose validator it has called
Frame(v, path) == [v |-> v, path |-> path, i |-> 0]

Top == stack[Len(stack)]

Running == result.status = "running" /\ stack # <<>>

NoRet == Ret("", "not called", NoObj, NoObj)

\* the items a validator's loop iterates
Items(v) ==
    IF v.kind = "DirValidator" /\ v.files_scheme # None THEN v.files_scheme[1]
    ELSE IF v.kind = "FileSchemeValidator" /\ v.scheme # None THEN v.scheme[1]
    ELSE <<>>

\* the stack once its top method has returned: the caller goes on; a loop
\* calls the validator of its next item, every other caller returns in turn
RECURSIVE Unwind(_)
Unwind(stk) ==
    LET rest == SubSeq(stk, 1, Len(stk) - 1)
    IN IF rest = <<>> THEN <<>>
       ELSE LET p == rest[Len(rest)]
                items == Items(p.v)
            IN IF p.i < Len(items)
               THEN Append([rest EXCEPT ![Len(rest)].i = p.i + 1],
                           Frame(items[p.i + 1][2],
                                 Append(p.path, items[p.i + 1][1])))
               ELSE Unwind(rest)

Call(v, path) ==
    /\ stack' = Append(stack, Frame(v, path))
    /\ UNCHANGED result

\* a loop that starts from the last item
CallLast(items) ==
    /\ stack' = Append([stack EXCEPT ![Len(stack)].i = 1],
                       Frame(items[Len(items)][2],
                             Append(Top.path, items[Len(items)][1])))
    /\ UNCHANGED result

\* a loop that gives the item's key alone as the path
CallFirst_unjoined(items) ==
    /\ stack' = Append([stack EXCEPT ![Len(stack)].i = 1],
                       Frame(items[1][2], <<items[1][1]>>))
    /\ UNCHANGED result

\* a loop calls the validator of its first item
CallFirst(items) ==
    /\ stack' = Append([stack EXCEPT ![Len(stack)].i = 1],
                       Frame(items[1][2], Append(Top.path, items[1][1])))
    /\ UNCHANGED result

Return ==
    /\ stack' = Unwind(stack)
    /\ result' = IF Unwind(stack) = <<>>
                 THEN [result EXCEPT !.status = "returned"]
                 ELSE result

\* no validate method catches what a nested validate call raises
Raise(exc, reason) ==
    /\ stack' = <<>>
    /\ result' = [status |-> "raised", exc |-> exc, reason |-> reason,
                  path |-> Top.path, detail |-> <<>>]

\* an exception whose message quotes values
RaiseWith(exc, reason, detail) ==
    /\ stack' = <<>>
    /\ result' = [status |-> "raised", exc |-> exc, reason |-> reason,
                  path |-> Top.path, detail |-> detail]

Visit == visited' = Append(visited, [kind |-> Top.v.kind, path |-> Top.path])

\* FileValidator.validate that does not look at required
FileChecks_optional(v, path) ==
    IF ~exists(path) THEN "return"
    ELSE IF ~is_file(path) THEN "NotARegularFile"
    ELSE IF v.content_validator # None THEN "call"
    ELSE "return"

\* FileValidator.validate up to the content validator: what it raises, or
\* "call" when it calls the content validator, or "return"
FileChecks(v, path) ==
    IF ~exists(path)
    THEN IF v.required THEN "FileShouldExist" ELSE "return"
    ELSE IF ~is_file(path) THEN "NotARegularFile"
    ELSE IF v.content_validator # None THEN "call"
    ELSE "return"

FileValidator_validate ==
    /\ Running
    /\ Top.v.kind \in {"FileValidator", "ReleaseInfoValidator"}
    /\ Visit
    /\ LET c == FileChecks(Top.v, Top.path)
       IN CASE c = "call" -> Call(Top.v.content_validator[1], Top.path)
            [] c = "return" -> Return
            [] OTHER -> Raise("ValidationError", c)
    /\ UNCHANGED <<fs, validator, root, parked, hashed, from_args_ret>>

DirValidator_validate ==
    /\ Running
    /\ Top.v.kind = "DirValidator"
    /\ Visit
    /\ IF ~exists(Top.path)
       THEN IF Top.v.required
            THEN Raise("ValidationError", "FileShouldExist")
            ELSE Return
       ELSE IF ~is_dir(Top.path)
       THEN Raise("ValidationError", "NotADirectory")
       ELSE IF Top.v.files_scheme # None /\ Top.v.files_scheme[1] # <<>>
       THEN CallFirst(Top.v.files_scheme[1])
       ELSE Return
    /\ UNCHANGED <<fs, validator, root, parked, hashed, from_args_ret>>

\* validate that replaces a missing scheme on the validator by an empty one
FileSchemeValidator_validate_default ==
    /\ Running
    /\ Top.v.kind = "FileSchemeValidator"
    /\ Visit
    /\ IF Top.v.scheme = None
       THEN /\ validator' = IF validator = Top.v
                            THEN [validator EXCEPT !.scheme = Some(<<>>)]
                            ELSE validator
            /\ Return
       ELSE /\ UNCHANGED validator
            /\ IF Top.v.scheme[1] # <<>>
               THEN CallFirst(Top.v.scheme[1])
               ELSE Return
    /\ UNCHANGED <<fs, root, parked, hashed, from_args_ret>>

FileSchemeValidator_validate ==
    /\ Running
    /\ Top.v.kind = "FileSchemeValidator"
    /\ Visit
    /\ IF Top.v.scheme = None
       THEN Raise("AttributeError", "items")
       ELSE IF Top.v.scheme[1] # <<>>
       THEN CallFirst(Top.v.scheme[1])
       ELSE Return
    /\ UNCHANGED <<fs, validator, root, parked, hashed, from_args_ret>>

\* utils.calc_hash opens the file and digests its bytes
calc_hash(path, hash_type) ==
    IF ~is_file(path) THEN [exc |-> "OSError", digest |-> NoDigest]
    ELSE [exc |-> "", digest |-> Digest(Entry(path).content, hash_type)]

\* validate that digests the file before the FileValidator checks
HashSumValidator_validate_hash_first ==
    /\ Running
    /\ Top.v.kind = "HashSumValidator"
    /\ Top.v.content_validator = None
    /\ Visit
    /\ hashed' = Append(hashed, Top.path)
    /\ LET c == FileChecks(Top.v, Top.path)
           hash_obj == calc_hash(Top.path, Top.v.hash_type)
       IN IF hash_obj.exc # ""
          THEN Raise(hash_obj.exc, "calc_hash")
          ELSE IF c # "return"
          THEN Raise("ValidationError", c)
          ELSE IF ~compare_digest(hash_obj.digest, Top.v.hash_sum)
          THEN RaiseWith("ValidationError", "HashMismatch",
                         <<hex(hash_obj.digest), hex(Top.v.hash_sum)>>)
          ELSE Return
    /\ UNCHANGED <<fs, validator, root, parked, from_args_ret>>

HashSumValidator_validate ==
    /\ Running
    /\ Top.v.kind = "HashSumValidator"
    /\ Top.v.content_validator = None
    /\ Visit
    /\ LET c == FileChecks(Top.v, Top.path)
           hash_obj == calc_hash(Top.path, Top.v.hash_type)
       IN IF c # "return"
          THEN /\ Raise("ValidationError", c)
               /\ UNCHANGED hashed
          ELSE /\ hashed' = Append(hashed, Top.path)
               /\ IF hash_obj.exc # ""
                  THEN Raise(hash_obj.exc, "calc_hash")
                  ELSE IF ~compare_digest(hash_obj.digest, Top.v.hash_sum)
                  THEN RaiseWith("ValidationError", "HashMismatch",
                                 <<hex(hash_obj.digest), hex(Top.v.hash_sum)>>)
                  ELSE Return
    /\ UNCHANGED <<fs, validator, root, parked, from_args_ret>>

\* self._CONTENT_LOADER[self.content_type](path)
CONTENT_LOADER(content_type, path) ==
    IF ~is_file(path) THEN [exc |-> "OSError", data |-> OtherData]
    ELSE IF content_type = "YAML" THEN load_yaml(Entry(path).content)
    ELSE load_json(Entry(path).content)

ContentFileValidator_validate ==
    /\ Running
    /\ Top.v.kind = "ContentFileValidator"
    /\ Visit
    /\ LET content == CONTENT_LOADER(Top.v.content_type, Top.path)
           r == from_args(content.data)
       IN IF content.exc # ""
          THEN /\ Raise("ValidationError", "ContentUnreadable")
               /\ UNCHANGED from_args_ret
          ELSE /\ from_args_ret' = r
               /\ IF r.exc = "TypeError"
                  THEN Raise("ValidationError", "ContentInvalid")
                  ELSE IF r.exc # ""
                  THEN Raise(r.exc, r.reason)
                  ELSE Return
    /\ UNCHANGED <<fs, validator, root, parked, hashed>>

(***************************************************************************)
(* The inputs of the directory walks: filesystems of two levels below the  *)
(* root and the validator trees that can be declared over them.            *)
(***************************************************************************)
Keys == {"repodata", "repomd.xml"}

\* the one directory below the root that has entries of its own
DeepKey == "repodata"

Paths == {<<>>} \cup {<<k>> : k \in Keys} \cup {<<DeepKey, k>> : k \in Keys}

ValidRelease ==
    [NAME |-> PyStr(<<"x">>), VERSION |-> PyStr(<<"2", ".", "0", ".", "1">>),
     BUILD |-> PyStr(<<"1", "5">>), OS |-> PyStr(<<"l", "i", "n", "u", "x">>),
     COMPONENTS |-> PyListOf(2)]

CValid == Content("json", DictData(ValidRelease))

CBadVersion ==
    Content("json",
            DictData([ValidRelease EXCEPT !["VERSION"] = PyStr(<<"2", ".", "0">>)]))

CGarbage == Content("garbage", OtherData)

WalkContents == {CValid, CBadVersion, CGarbage}

Entries == {Missing, Directory} \cup {RegularFile(c) : c \in WalkContents}

Parent(path) == SubSeq(path, 1, Len(path) - 1)

\* an entry exists only inside a directory
FileSystems ==
    {f \in [Paths -> Entries] :
        \A p \in Paths \ {<<>>} :
            f[p].kind # "missing" => f[Parent(p)].kind = "dir"}

\* the scheme dicts over the keys: None, empty, one item, two items in
\* either insertion order
Schemes(V) ==
    {None, Some(<<>>)}
    \cup {Some(<< <<k, v>> >>) : k \in Keys, v \in V}
    \cup {Some(<< <<k1, v1>>, <<k2, v2>> >>) :
            <<k1, k2>> \in {kk \in Keys \X Keys : kk[1] # kk[2]},
            <<v1, v2>> \in V \X V}

Composites(S) ==
    {DirValidator(sc, r) : sc \in S, r \in BOOLEAN}
    \cup {FileSchemeValidator(sc) : sc \in S}

LeafValidators ==
    {FileValidator(r) : r \in BOOLEAN}
    \cup {ReleaseInfoValidator(r, t) : r \in BOOLEAN, t \in {"YAML", "JSON"}}
    \cup {ContentFileValidator(t) : t \in {"YAML", "JSON"}}
    \cup {HashSumValidator(r, Digest(c, a), t) :
            r \in BOOLEAN, c \in {CValid, CBadVersion},
            <<a, t>> \in {<<"md5", "md5">>, <<"md5", "sha256">>}}

ChildValidators ==
    {FileValidator(TRUE), FileValidator(FALSE),
     ReleaseInfoValidator(TRUE, "YAML"),
     HashSumValidator(FALSE, Digest(CValid, "md5"), "md5"),
     FileSchemeValidator(None)}

InnerValidators ==
    Composites(Schemes({FileValidator(TRUE), FileValidator(FALSE)}))

NestedSchemes ==
    {Some(<< <<DeepKey, v>> >>) : v \in InnerValidators}
    \cup {Some(<< <<DeepKey, v>>, <<"repomd.xml", FileValidator(TRUE)>> >>) :
            v \in InnerValidators}

Validators ==
    LeafValidators \cup Composites(Schemes(ChildValidators))
    \cup Composites(NestedSchemes) \cup {YumRepoDataValidator}

\* what a thread keeps for itself during a call: the path it was given
\* and the frames, the record of its calls and its outcome so far
Thread(r, stk, vis, hsh, ret, res) ==
    [root |-> r, stack |-> stk, visited |-> vis, hashed |-> hsh,
     from_args_ret |-> ret, result |-> res]

NoResult ==
    [status |-> "running", exc |-> "", reason |-> "", path |-> <<>>,
     detail |-> <<>>]

\* no second thread
NoThread ==
    Thread(<<>>, <<>>, <<>>, <<>>, NoRet, [NoResult EXCEPT !.status = "returned"])

Init ==
    /\ fs \in FileSystems
    /\ validator \in Validators
    /\ root = <<>>
    /\ stack = <<Frame(validator, root)>>
    /\ visited = <<>>
    /\ hashed = <<>>
    /\ from_args_ret = NoRet
    /\ result = NoResult
    /\ parked = NoThread

Next ==
    \/ FileValidator_validate
    \/ DirValidator_validate
    \/ FileSchemeValidator_validate
    \/ HashSumValidator_validate
    \/ ContentFileValidator_validate

Spec == Init /\ [][Next]_vars

(***************************************************************************)
(* The inputs of the content checks: one regular file, validated by a      *)
(* ContentFileValidator or a ReleaseInfoValidator, whose content ranges    *)
(* over the shapes from_args distinguishes.                                *)
(***************************************************************************)
Chars == {"1", ".", "a"}

RECURSIVE StringsUpTo(_)
StringsUpTo(n) ==
    IF n = 0 THEN {<<>>}
    ELSE LET S == StringsUpTo(n - 1)
         IN S \cup {Append(s, c) : s \in S, c \in Chars}

FieldStrings ==
    StringsUpTo(MaxStrLen)
    \cup {<<"1", ".", "2", ".", "3">>, <<"1", ".", "2">>,
          <<"1", ".", "2", ".", "3", ".", "4">>, <<"1", ".", "a", ".", "3">>,
          <<"1", ".", "2", ".", "3", "\n">>, <<"4", "2">>, <<"4", "a">>,
          <<"4", "2", "\n">>}

FieldValues ==
    {PyStr(s) : s \in FieldStrings}
    \cup {PyInt(n) : n \in 0..MaxInt}
    \cup {PyFloat(n) : n \in 0..MaxInt}
    \cup {PyNone, PyListOf(0), PyListOf(2)}

\* a value the attribute's validator accepts and one it rejects
Good(f) == (ValidRelease @@ [RELEASE |-> PyStr(<<"r">>)])[f]

Bad(f) ==
    CASE f = "VERSION" -> PyStr(<<"2", ".", "0">>)
      [] f = "BUILD" -> PyStr(<<"4", "a">>)
      [] f = "COMPONENTS" -> PyStr(<<"a">>)
      [] OTHER -> PyInt(1)

AllKeys == fields_dict \cup {"EXTRA", "KERNEL"}

\* every choice of absent, accepted or rejected value per declared name,
\* with undeclared names beside them
MixedDicts ==
    {[k \in K |-> IF k \notin fields_dict THEN PyStr(<<"a">>)
                  ELSE IF k \in B THEN Bad(k) ELSE Good(k)] :
        <<K, B>> \in {kb \in (SUBSET AllKeys) \X (SUBSET fields_dict) :
                        kb[2] \subseteq kb[1]}}

VersionDicts == {[ValidRelease EXCEPT !["VERSION"] = v] : v \in FieldValues}

BuildDicts == {[ValidRelease EXCEPT !["BUILD"] = v] : v \in FieldValues}

\* the declared attributes by position, cut or extended to every length,
\* with at most one position holding a rejected value
Lists ==
    LET full == [i \in 1..(Len(fields) + 1) |->
                    IF i > Len(fields) THEN PyStr(<<"a">>)
                    ELSE Good(fields[i])]
    IN {[i \in 1..n |-> IF i = b THEN Bad(fields[i]) ELSE full[i]] :
            n \in 0..(Len(fields) + 1), b \in 0..Len(fields)}

ContentData ==
    {DictData(d) : d \in MixedDicts \cup VersionDicts \cup BuildDicts}
    \cup {ListData(l) : l \in Lists}
    \cup {OtherData}

Contents ==
    {Content("json", data) : data \in ContentData}
    \cup {Content("yaml", data) : data \in {DictData(ValidRelease), OtherData}}
    \cup {CGarbage}

ContentValidators ==
    {ContentFileValidator(t) : t \in {"YAML", "JSON"}}
    \cup {ReleaseInfoValidator(TRUE, "YAML")}

InitContent ==
    /\ \E c \in Contents : fs = [p \in {<<>>} |-> RegularFile(c)]
    /\ validator \in ContentValidators
    /\ root = <<>>
    /\ stack = <<Frame(validator, root)>>
    /\ visited = <<>>
    /\ hashed = <<>>
    /\ from_args_ret = NoRet
    /\ result = NoResult
    /\ parked = NoThread

NextContent ==
    \/ FileValidator_validate
    \/ ContentFileValidator_validate

SpecContent == InitContent /\ [][NextContent]_vars

(***************************************************************************)
(* Vocabulary of the properties.                                           *)
(***************************************************************************)
Done == result.status # "running"

Succeeded == result.status = "returned"

FailedWith(reason, path) ==
    /\ result.status = "raised"
    /\ result.exc = "ValidationError"
    /\ result.reason = reason
    /\ result.path = path

Root == <<>>

RootContent == fs[Root].content

\* the validate calls made on the entries of the root's scheme
IsChildVisit(e) == Len(e.path) = 1 /\ e.kind # "ContentFileValidator"

ChildVisits == SelectSeq(visited, IsChildVisit)

\* what each validate method raises by itself
OwnFailures(kind) ==
    CASE kind \in {"FileValidator", "ReleaseInfoValidator"} ->
             {"FileShouldExist", "NotARegularFile"}
      [] kind = "DirValidator" -> {"FileShouldExist", "NotADirectory"}
      [] kind = "FileSchemeValidator" -> {"items"}
      [] kind = "HashSumValidator" ->
             {"FileShouldExist", "NotARegularFile", "calc_hash", "HashMismatch"}
      [] OTHER ->
             {"ContentUnreadable", "ContentInvalid", "UnsupportedContentShape",
              "validator"}

(***************************************************************************)
(* C1: whatever the validator and the filesystem, a validate call either   *)
(* returns or raises a ValidationError; no other exception escapes.        *)
(***************************************************************************)
C1_OnlyValidationError ==
    result.status = "raised" => result.exc = "ValidationError"

(***************************************************************************)
(* C2: FileValidator.validate on a path that does not exist raises the     *)
(* "should exist" ValidationError at that path when required is true and   *)
(* returns when it is false, and in neither case calls the content         *)
(* validator.                                                              *)
(***************************************************************************)
C2_MissingFile ==
    [][(FileValidator_validate /\ ~exists(Top.path)) =>
          /\ IF Top.v.required
             THEN /\ result'.status = "raised"
                  /\ result'.exc = "ValidationError"
                  /\ result'.reason = "FileShouldExist"
                  /\ result'.path = Top.path
             ELSE /\ result'.status # "raised"
                  /\ Len(stack) = 1 => result'.status = "returned"
          /\ Len(stack') # Len(stack) + 1
          /\ from_args_ret' = from_args_ret]_vars

C2_Witness ==
    /\ validator.kind = "ReleaseInfoValidator"
    /\ ~validator.required
    /\ ~exists(Root)
    /\ Succeeded
    /\ visited = <<[kind |-> "ReleaseInfoValidator", path |-> Root]>>

(***************************************************************************)
(* C3: DirValidator.validate on a regular file raises the "is not a        *)
(* directory" ValidationError at that path whether or not required is      *)
(* set, and validates no entry of its files_scheme.                        *)
(***************************************************************************)
C3_FileIsNotADirectory ==
    [][(DirValidator_validate /\ is_file(Top.path)) =>
          /\ result'.status = "raised"
          /\ result'.exc = "ValidationError"
          /\ result'.reason = "NotADirectory"
          /\ result'.path = Top.path
          /\ stack' = <<>>]_vars

C3_Witness ==
    /\ validator.kind = "DirValidator"
    /\ ~validator.required
    /\ Len(Items(validator)) = 2
    /\ is_file(Root)
    /\ FailedWith("NotADirectory", Root)
    /\ visited = <<[kind |-> "DirValidator", path |-> Root]>>

(***************************************************************************)
(* C4: DirValidator.validate on an existing directory validates the        *)
(* entries of files_scheme in insertion order, each at the path joined     *)
(* with its key; it returns only after all of them were validated, and     *)
(* when one raises, what it raised is what the call raises and no later    *)
(* entry is validated.                                                     *)
(***************************************************************************)
C4_FailFastInOrder ==
    (validator.kind = "DirValidator" /\ is_dir(Root)) =>
        LET items == Items(validator)
            n == Len(ChildVisits)
        IN /\ n <= Len(items)
           /\ \A j \in 1..n :
                 /\ ChildVisits[j].path = <<items[j][1]>>
                 /\ ChildVisits[j].kind = items[j][2].kind
           /\ Succeeded => n = Len(items)
           /\ result.status = "raised" =>
                 /\ stack = <<>>
                 /\ n >= 1
                 /\ result.path[1] = items[n][1]
                 /\ result.path = visited[Len(visited)].path
                 /\ result.reason \in OwnFailures(visited[Len(visited)].kind)

C4_Witness ==
    /\ validator.kind = "DirValidator"
    /\ is_dir(Root)
    /\ Len(Items(validator)) = 2
    /\ result.status = "raised"
    /\ Len(ChildVisits) = 1

(***************************************************************************)
(* C5: FileSchemeValidator.validate does not look at the root: whatever    *)
(* the root is, the call fails only with the failure of one of its         *)
(* declared entries and returns when all of them, if any, returned.        *)
(***************************************************************************)
C5_OutcomeFromChildrenOnly ==
    (validator.kind = "FileSchemeValidator" /\ Done) =>
        /\ result.status = "raised" => Len(result.path) >= 1
        /\ Items(validator) = <<>> => Succeeded

(***************************************************************************)
(* C6: HashSumValidator.validate returns exactly when the path is a        *)
(* regular file whose digest under hash_type equals hash_sum; on a         *)
(* directory it raises a ValidationError.                                  *)
(***************************************************************************)
C6_HashSumOutcome ==
    (validator.kind = "HashSumValidator" /\ Done) =>
        /\ Succeeded <=>
              /\ fs[Root].kind = "file"
              /\ validator.hash_sum.alg = validator.hash_type
              /\ validator.hash_sum.of = RootContent
        /\ fs[Root].kind = "dir" =>
              result.status = "raised" /\ result.exc = "ValidationError"

C6_Witness ==
    /\ validator.kind = "HashSumValidator"
    /\ fs[Root].kind = "file"
    /\ Succeeded
    /\ hashed = <<Root>>

(***************************************************************************)
(* Vocabulary of the content properties.                                   *)
(***************************************************************************)
\* from_args was called, on a dict
CalledOnDict == from_args_ret # NoRet /\ RootContent.data.shape = "dict"

Given == RootContent.data.d

Accepted == from_args_ret.exc = ""

AllDigits(s) == s # <<>> /\ \A k \in 1..Len(s) : IsDigit(s[k])

\* three non-empty groups of digits separated by two dots
ThreeGroups(s) ==
    \E i, j \in 1..Len(s) :
        /\ 1 < i /\ i + 1 < j /\ j < Len(s)
        /\ s[i] = "." /\ s[j] = "."
        /\ \A k \in (1..Len(s)) \ {i, j} : IsDigit(s[k])

\* the value of a present attribute meets the attribute's constraint
Meets(f, v) ==
    CASE f = "VERSION" -> ThreeGroups(str(v))
      [] f = "BUILD" -> AllDigits(str(v))
      [] f = "COMPONENTS" -> v.t = "list"
      [] f = "RELEASE" -> v.t \in {"str", "none"}
      [] OTHER -> v.t = "str"

FiveRequired == {"NAME", "VERSION", "BUILD", "OS", "COMPONENTS"}

(***************************************************************************)
(* C7: ContentFileValidator.validate raises a ValidationError for a file   *)
(* the loader cannot parse, and a ValidationError for every failure of     *)
(* scheme.from_args, a malformed attribute value included.                 *)
(***************************************************************************)
C7_ContentFailuresAreValidationErrors ==
    Done =>
        /\ from_args_ret = NoRet => FailedWith("ContentUnreadable", Root)
        /\ from_args_ret.exc # "" =>
              result.status = "raised" /\ result.exc = "ValidationError"

(***************************************************************************)
(* C8: from_args on a mapping never rejects it for an undeclared key: it   *)
(* accepts it exactly when it accepts the declared part alone, and the     *)
(* unexpected attributes of the instance are the undeclared keys with the  *)
(* values given, the declared keys being the instance's attributes.        *)
(***************************************************************************)
C8_UnexpectedAttributesKept ==
    CalledOnDict =>
        LET declared == (DOMAIN Given) \cap fields_dict
        IN /\ Accepted <=> from_args(DictData(Restrict(Given, declared))).exc = ""
           /\ Accepted =>
                 /\ DOMAIN from_args_ret.unexpected = (DOMAIN Given) \ fields_dict
                 /\ \A k \in DOMAIN from_args_ret.unexpected :
                        from_args_ret.unexpected[k] = Given[k]
                 /\ \A k \in declared :
                        from_args_ret.obj[k] =
                            IF k \in {"VERSION", "BUILD"}
                            THEN PyStr(str(Given[k])) ELSE Given[k]

C8_Witness ==
    /\ CalledOnDict
    /\ Accepted
    /\ DOMAIN from_args_ret.unexpected = {"EXTRA", "KERNEL"}
    /\ Succeeded

(***************************************************************************)
(* C9: the release-info scheme accepts a mapping only if NAME, VERSION,    *)
(* BUILD, OS and COMPONENTS are all given with values meeting their        *)
(* constraints; a mapping lacking one of the five fails the validation     *)
(* with the content-invalid ValidationError; a mapping lacking only        *)
(* RELEASE is accepted with RELEASE None, as is the example mapping.       *)
(***************************************************************************)
C9_RequiredFields ==
    CalledOnDict =>
        /\ Accepted =>
              /\ FiveRequired \subseteq DOMAIN Given
              /\ \A f \in FiveRequired : Meets(f, Given[f])
        /\ (Done /\ ~(FiveRequired \subseteq DOMAIN Given)) =>
              FailedWith("ContentInvalid", Root)
        /\ ( /\ FiveRequired \subseteq DOMAIN Given
             /\ \A f \in FiveRequired : Meets(f, Given[f])
             /\ "RELEASE" \notin DOMAIN Given ) =>
              /\ Accepted
              /\ from_args_ret.obj["RELEASE"] = PyNone
              /\ Done => Succeeded
        /\ (Given = ValidRelease /\ Done) => Succeeded

C9_Witness ==
    /\ CalledOnDict
    /\ Given = ValidRelease
    /\ from_args_ret.obj["RELEASE"] = PyNone
    /\ Succeeded

(***************************************************************************)
(* C10: with the other attributes meeting their constraints, a VERSION     *)
(* value is accepted exactly when its string form is three non-empty       *)
(* groups of decimal digits separated by two dots: "1.2.3" is accepted,    *)
(* "1.2", "1.2.3.4" and "1.a.3" are rejected.                              *)
(***************************************************************************)
C10_VersionPattern ==
    ( /\ CalledOnDict
      /\ FiveRequired \subseteq DOMAIN Given
      /\ \A f \in (DOMAIN Given \cap fields_dict) \ {"VERSION"} :
            Meets(f, Given[f]) ) =>
        /\ Accepted <=> ThreeGroups(str(Given["VERSION"]))
        /\ Given["VERSION"] = PyStr(<<"1", ".", "2", ".", "3">>) => Accepted
        /\ Given["VERSION"] \in
              {PyStr(<<"1", ".", "2">>),
               PyStr(<<"1", ".", "2", ".", "3", ".", "4">>),
               PyStr(<<"1", ".", "a", ".", "3">>)} => ~Accepted

C10_Witness ==
    /\ CalledOnDict
    /\ Given = [ValidRelease EXCEPT !["VERSION"] = PyStr(<<"1", ".", "2", ".", "3">>)]
    /\ Accepted
    /\ Succeeded

(***************************************************************************)
(* C11: with the other attributes meeting their constraints, a BUILD value *)
(* is accepted exactly when its string form is one or more decimal digits  *)
(* and nothing else: "42" is accepted, "4a" and "" are rejected.           *)
(***************************************************************************)
C11_BuildPattern ==
    ( /\ CalledOnDict
      /\ FiveRequired \subseteq DOMAIN Given
      /\ \A f \in (DOMAIN Given \cap fields_dict) \ {"BUILD"} :
            Meets(f, Given[f]) ) =>
        /\ Accepted <=> AllDigits(str(Given["BUILD"]))
        /\ Given["BUILD"] = PyStr(<<"4", "2">>) => Accepted
        /\ Given["BUILD"] \in {PyStr(<<"4", "a">>), PyStr(<<>>)} => ~Accepted

C11_Witness ==
    /\ CalledOnDict
    /\ Given = [ValidRelease EXCEPT !["BUILD"] = PyStr(<<"4", "2">>)]
    /\ Accepted
    /\ Succeeded

(***************************************************************************)
(* C12: YumRepoDataValidator accepts a path exactly when it is a directory *)
(* holding a regular file repomd.xml; a directory without repomd.xml fails *)
(* with the "should exist" ValidationError at the repomd.xml sub-path, a   *)
(* missing root and a root that is not a directory fail as well.           *)
(***************************************************************************)
C12_YumRepoData ==
    (validator = YumRepoDataValidator /\ Done) =>
        /\ Succeeded <=>
              fs[Root].kind = "dir" /\ fs[<<"repomd.xml">>].kind = "file"
        /\ (fs[Root].kind = "dir" /\ fs[<<"repomd.xml">>].kind = "missing") =>
              FailedWith("FileShouldExist", <<"repomd.xml">>)
        /\ fs[Root].kind = "missing" => FailedWith("FileShouldExist", Root)
        /\ fs[Root].kind = "file" => FailedWith("NotADirectory", Root)

C12_Witness ==
    /\ validator = YumRepoDataValidator
    /\ Succeeded
    /\ visited = <<[kind |-> "DirValidator", path |-> Root],
                   [kind |-> "FileValidator", path |-> <<"repomd.xml">>]>>

(***************************************************************************)
(* C16: FileValidator.validate on an existing path that is not a regular   *)
(* file raises the "not a regular file" ValidationError whatever required  *)
(* is, without calling the content validator; on a regular file it calls   *)
(* the attached content validator once, on the same path, and what that    *)
(* call returns or raises is the outcome; with none attached it returns.   *)
(***************************************************************************)
C16_StepOnExistingPath ==
    (FileValidator_validate /\ Entry(Top.path).kind # "missing") =>
        IF Entry(Top.path).kind # "file"
        THEN /\ result'.status = "raised"
             /\ result'.exc = "ValidationError"
             /\ result'.reason = "NotARegularFile"
             /\ result'.path = Top.path
             /\ stack' = <<>>
             /\ from_args_ret' = from_args_ret
        ELSE IF Top.v.content_validator # None
        THEN /\ stack' = Append(stack, Frame(Top.v.content_validator[1], Top.path))
             /\ result' = result
        ELSE /\ result'.status # "raised"
             /\ Len(stack') # Len(stack) + 1
             /\ Len(stack) = 1 => result'.status = "returned"

C16_ContentValidatorOutcome ==
    ( /\ validator.kind \in {"FileValidator", "ReleaseInfoValidator"}
      /\ validator.content_validator # None
      /\ fs[Root].kind = "file"
      /\ Done ) =>
        /\ visited = <<[kind |-> validator.kind, path |-> Root],
                       [kind |-> validator.content_validator[1].kind,
                        path |-> Root]>>
        /\ result.status = "raised" =>
              /\ result.path = Root
              /\ result.reason \in OwnFailures(validator.content_validator[1].kind)

C16_ExistingFile ==
    [][C16_StepOnExistingPath]_vars /\ []C16_ContentValidatorOutcome

C16_Witness ==
    /\ validator.kind = "ReleaseInfoValidator"
    /\ fs[Root].kind = "file"
    /\ FailedWith("ContentUnreadable", Root)
    /\ Len(visited) = 2

(***************************************************************************)
(* C18: from_args on a sequence binds the elements to the declared         *)
(* attributes by position in declaration order, with no unexpected         *)
(* attributes; a sequence shorter than the required attributes or longer   *)
(* than the declared ones is rejected as invalid content, never cut or     *)
(* padded; anything that is neither a mapping nor a sequence is rejected   *)
(* with the ValidationError for an unsupported top-level type.             *)
(***************************************************************************)
C18_PositionalBinding ==
    from_args_ret # NoRet =>
        LET data == RootContent.data
        IN /\ data.shape = "list" =>
                 /\ Accepted =>
                       /\ Len(data.l) \in 5..6
                       /\ \A i \in 1..Len(data.l) :
                             from_args_ret.obj[fields[i]] =
                                 IF fields[i] \in {"VERSION", "BUILD"}
                                 THEN PyStr(str(data.l[i])) ELSE data.l[i]
                       /\ Len(data.l) = 5 => from_args_ret.obj["RELEASE"] = PyNone
                       /\ DOMAIN from_args_ret.unexpected = {}
                 /\ (Len(data.l) < 5 \/ Len(data.l) > 6) =>
                       /\ ~Accepted
                       /\ Done => FailedWith("ContentInvalid", Root)
           /\ data.shape = "other" =>
                 /\ from_args_ret.exc = "ValidationError"
                 /\ Done => FailedWith("UnsupportedContentShape", Root)

C18_Witness ==
    /\ from_args_ret # NoRet
    /\ RootContent.data.shape = "list"
    /\ Len(RootContent.data.l) = 6
    /\ Accepted
    /\ from_args_ret.obj["RELEASE"] = PyStr(<<"r">>)
    /\ Succeeded

(***************************************************************************)
(* C19: DirValidator.validate with required false on a path that does not  *)
(* exist returns without validating any entry of files_scheme; an entry is *)
(* validated only when the path is a directory.                            *)
(***************************************************************************)
C19_StepOfDirValidator ==
    DirValidator_validate =>
        /\ (Entry(Top.path).kind = "missing" /\ ~Top.v.required) =>
              /\ result'.status # "raised"
              /\ Len(stack') # Len(stack) + 1
              /\ Len(stack) = 1 => result'.status = "returned"
        /\ Len(stack') = Len(stack) + 1 => Entry(Top.path).kind = "dir"

C19_AbsentOptionalDirectory == [][C19_StepOfDirValidator]_vars

C19_Witness ==
    /\ validator.kind = "DirValidator"
    /\ ~validator.required
    /\ Len(Items(validator)) = 2
    /\ Items(validator)[1][2] = FileValidator(TRUE)
    /\ fs[Root].kind = "missing"
    /\ Succeeded
    /\ visited = <<[kind |-> "DirValidator", path |-> Root]>>

(***************************************************************************)
(* C17: HashSumValidator.validate runs the FileValidator checks first and  *)
(* digests the file only once they have passed; when they fail the file is *)
(* never digested and their failure is the outcome; a digest that differs  *)
(* from hash_sum raises the hash-mismatch ValidationError, which quotes    *)
(* the actual and the expected digest in hexadecimal.                      *)
(***************************************************************************)
C17_ChecksBeforeDigest ==
    validator.kind = "HashSumValidator" =>
        /\ hashed # <<>> =>
              /\ hashed = <<Root>>
              /\ \/ fs[Root].kind = "file"
                 \/ fs[Root].kind = "missing" /\ ~validator.required
        /\ (Done /\ fs[Root].kind = "missing" /\ validator.required) =>
              hashed = <<>> /\ FailedWith("FileShouldExist", Root)
        /\ (Done /\ fs[Root].kind = "dir") =>
              hashed = <<>> /\ FailedWith("NotARegularFile", Root)
        /\ ( /\ Done
             /\ fs[Root].kind = "file"
             /\ validator.hash_sum # [alg |-> validator.hash_type,
                                     of |-> RootContent] ) =>
              /\ FailedWith("HashMismatch", Root)
              /\ result.detail =
                     <<[hex |-> [alg |-> validator.hash_type, of |-> RootContent]],
                       [hex |-> validator.hash_sum]>>

C17_Witness ==
    /\ validator.kind = "HashSumValidator"
    /\ fs[Root].kind = "file"
    /\ FailedWith("HashMismatch", Root)
    /\ hashed = <<Root>>
    /\ result.detail[1] # result.detail[2]

(***************************************************************************)
(* The shape of a validator tree: the validate calls it declares.          *)
(***************************************************************************)
Max(S) == IF S = {} THEN 0 ELSE CHOOSE m \in S : \A x \in S : x <= m

\* the validators a validate method of v calls, with the path of each call
Callees(v, path) ==
    {<<v.content_validator[i], path>> : i \in 1..Len(v.content_validator)}
    \cup {<<Items(v)[i][2], Append(path, Items(v)[i][1])>> :
            i \in 1..Len(Items(v))}

\* the longest chain of nested validate calls a tree declares
RECURSIVE Depth(_)
Depth(v) == 1 + Max({Depth(c[1]) : c \in Callees(v, <<>>)})

\* the paths of the validate calls a tree declares for a root
RECURSIVE DeclaredPaths(_, _)
DeclaredPaths(v, path) ==
    {path} \cup UNION {DeclaredPaths(c[1], c[2]) : c \in Callees(v, path)}

\* the number of validate calls a tree declares
RECURSIVE Calls(_)
Calls(v) ==
    LET RECURSIVE Sum(_)
        Sum(S) == IF S = {} THEN 0
                  ELSE LET c == CHOOSE x \in S : TRUE
                       IN Calls(c[1]) + Sum(S \ {c})
    IN 1 + Sum(Callees(v, <<>>))

\* the walks of the deepest trees, under a scheduler that keeps running
\* the call
DeepValidators ==
    LeafValidators \cup {YumRepoDataValidator, FileSchemeValidator(None)}
    \cup Composites({sc \in NestedSchemes :
                        \A i \in 1..Len(Items(sc[1][1][2])) :
                            Items(sc[1][1][2])[i][2] = FileValidator(TRUE)})

InitDeep ==
    /\ fs \in FileSystems
    /\ validator \in DeepValidators
    /\ root = <<>>
    /\ stack = <<Frame(validator, root)>>
    /\ visited = <<>>
    /\ hashed = <<>>
    /\ from_args_ret = NoRet
    /\ result = NoResult
    /\ parked = NoThread

FairSpec == InitDeep /\ [][Next]_vars /\ WF_vars(Next)

(***************************************************************************)
(* C14: a validate call terminates; the nesting of its validate calls      *)
(* never exceeds the depth of the declared scheme, and every path it       *)
(* validates or digests is the root joined with a chain of declared keys.  *)
(***************************************************************************)
C14_WithinDeclaredScheme ==
    /\ Len(stack) <= Depth(validator)
    /\ Len(visited) <= Calls(validator)
    /\ \A i \in 1..Len(visited) :
          visited[i].path \in DeclaredPaths(validator, Root)
    /\ \A i \in 1..Len(hashed) :
          hashed[i] \in DeclaredPaths(validator, Root)

C14_TerminatesWithinScheme == <>Done /\ []C14_WithinDeclaredScheme

C14_Witness ==
    /\ Depth(validator) = 3
    /\ Len(stack) = 3
    /\ Top.path = <<DeepKey, "repomd.xml">>
    /\ Len(visited) = 2

(***************************************************************************)
(* Two threads calling validate on one validator tree.  The interpreter    *)
(* runs one thread at a time and may switch between any two steps; the     *)
(* thread that is not running keeps its own frames.                        *)
(***************************************************************************)
Switch ==
    /\ parked.result.status = "running"
    /\ parked' = Thread(root, stack, visited, hashed, from_args_ret, result)
    /\ root' = parked.root
    /\ stack' = parked.stack
    /\ visited' = parked.visited
    /\ hashed' = parked.hashed
    /\ from_args_ret' = parked.from_args_ret
    /\ result' = parked.result
    /\ UNCHANGED <<fs, validator>>

ThreadValidators ==
    {FileValidator(TRUE), ReleaseInfoValidator(TRUE, "YAML"),
     ContentFileValidator("JSON"), FileSchemeValidator(None),
     HashSumValidator(FALSE, Digest(CValid, "md5"), "md5"),
     YumRepoDataValidator}
    \cup Composites(Schemes({FileValidator(TRUE),
                             ReleaseInfoValidator(TRUE, "YAML")}))

\* one thread is given the root, the other the directory below it
InitThreads ==
    /\ fs \in FileSystems
    /\ validator \in ThreadValidators
    /\ root = <<>>
    /\ stack = <<Frame(validator, root)>>
    /\ visited = <<>>
    /\ hashed = <<>>
    /\ from_args_ret = NoRet
    /\ result = NoResult
    /\ parked = Thread(<<DeepKey>>, <<Frame(validator, <<DeepKey>>)>>,
                       <<>>, <<>>, NoRet, NoResult)

NextThreads ==
    \/ FileValidator_validate
    \/ DirValidator_validate
    \/ FileSchemeValidator_validate
    \/ HashSumValidator_validate
    \/ ContentFileValidator_validate
    \/ Switch

SpecThreads == InitThreads /\ [][NextThreads]_vars

(***************************************************************************)
(* The outcome of one validate call that runs alone, by the structure of   *)
(* the validator.                                                          *)
(***************************************************************************)
Returns == [NoResult EXCEPT !.status = "returned"]

Raises(exc, reason, path, detail) ==
    [status |-> "raised", exc |-> exc, reason |-> reason, path |-> path,
     detail |-> detail]

RECURSIVE Outcome(_, _), OutcomeOfItems(_, _, _)
Outcome(v, path) ==
    LET kind == Entry(path).kind
    IN CASE v.kind \in {"FileValidator", "ReleaseInfoValidator"} ->
              IF kind = "missing"
              THEN IF v.required
                   THEN Raises("ValidationError", "FileShouldExist", path, <<>>)
                   ELSE Returns
              ELSE IF kind = "dir"
              THEN Raises("ValidationError", "NotARegularFile", path, <<>>)
              ELSE IF v.content_validator = None THEN Returns
              ELSE Outcome(v.content_validator[1], path)
         [] v.kind = "DirValidator" ->
              IF kind = "missing"
              THEN IF v.required
                   THEN Raises("ValidationError", "FileShouldExist", path, <<>>)
                   ELSE Returns
              ELSE IF kind = "file"
              THEN Raises("ValidationError", "NotADirectory", path, <<>>)
              ELSE OutcomeOfItems(Items(v), path, 1)
         [] v.kind = "FileSchemeValidator" ->
              IF v.scheme = None
              THEN Raises("AttributeError", "items", path, <<>>)
              ELSE OutcomeOfItems(Items(v), path, 1)
         [] v.kind = "HashSumValidator" ->
              IF kind = "missing"
              THEN IF v.required
                   THEN Raises("ValidationError", "FileShouldExist", path, <<>>)
                   ELSE Raises("OSError", "calc_hash", path, <<>>)
              ELSE IF kind = "dir"
              THEN Raises("ValidationError", "NotARegularFile", path, <<>>)
              ELSE IF Digest(Entry(path).content, v.hash_type) = v.hash_sum
              THEN Returns
              ELSE Raises("ValidationError", "HashMismatch", path,
                          <<hex(Digest(Entry(path).content, v.hash_type)),
                            hex(v.hash_sum)>>)
         [] OTHER ->
              LET content == CONTENT_LOADER(v.content_type, path)
                  r == from_args(content.data)
              IN IF content.exc # ""
                 THEN Raises("ValidationError", "ContentUnreadable", path, <<>>)
                 ELSE IF r.exc = "TypeError"
                 THEN Raises("ValidationError", "ContentInvalid", path, <<>>)
                 ELSE IF r.exc # "" THEN Raises(r.exc, r.reason, path, <<>>)
                 ELSE Returns

OutcomeOfItems(items, path, i) ==
    IF i > Len(items) THEN Returns
    ELSE LET r == Outcome(items[i][2], Append(path, items[i][1]))
         IN IF r.status = "raised" THEN r
            ELSE OutcomeOfItems(items, path, i + 1)

(***************************************************************************)
(* C13: no step of a validate call changes the validator tree, and however *)
(* the steps of two calls on the same tree are interleaved, each call ends *)
(* with the outcome it has when it runs alone.                             *)
(***************************************************************************)
C13_OutcomeAsAlone ==
    /\ Done => result = Outcome(validator, root)
    /\ parked.result.status # "running" =>
          parked.result = Outcome(validator, parked.root)

C13_SharedValidator ==
    [][validator' = validator]_vars /\ []C13_OutcomeAsAlone

C13_Witness ==
    /\ result.status = "running"
    /\ parked.result.status = "running"
    /\ root = <<DeepKey>>
    /\ Len(visited) = 1
    /\ Len(parked.visited) = 2
    /\ Len(parked.stack) = 2

====
